---- MODULE Spec2Model ----
(***************************************************************************)
(* SiteScout (src/main.py): a catalog of websites is checked in batches by *)
(* a browser agent; the per-site verdicts are merged into a report that is *)
(* written to website_status.json and summarised on the console.           *)
(*                                                                         *)
(* Text is modelled as a sequence of pieces (TLA+ strings): the agent's    *)
(* final text is the sequence of its JSON tokens, and Python's string      *)
(* concatenation is \o on these sequences.                                 *)
(***************************************************************************)
EXTENDS Integers, Sequences, FiniteSets, TLC

(***************************************************************************)
(* Bounds of the model.                                                    *)
(***************************************************************************)
\* batch_size of main(), scaled down from 20 so that the catalog below
\* splits into more than one batch.
batch_size == 2

\* Longest free token text (any tokens at all) the parser is tried on.
MaxTokens == 2

(***************************************************************************)
(* Python values.                                                          *)
(***************************************************************************)
None == [t |-> "None"]

Str(pieces) == [t |-> "str", s |-> pieces]

IntVal(piece) == [t |-> "int", s |-> <<piece>>]

List(items) == [t |-> "list", items |-> items]

\* A dict keeps its keys in insertion order: a sequence of <<key, value>>.
Dict(items) == [t |-> "dict", items |-> items]

EmptyDict == Dict(<<>>)

TypeName(v) == IF v.t = "None" THEN "NoneType" ELSE v.t

\* bool(v), as used by `if data["error"]:`
Truthy(v) ==
    CASE v.t = "None" -> FALSE
      [] v.t = "str"  -> v.s # <<>>
      [] v.t = "int"  -> v.s # <<"0">>
      [] v.t = "list" -> v.items # <<>>
      [] v.t = "dict" -> v.items # <<>>

RECURSIVE IndexOf(_, _, _)
\* position of key k in the dict's items at or after position n, 0 if none
IndexOf(items, k, n) ==
    IF n > Len(items) THEN 0
    ELSE IF items[n][1] = k THEN n
    ELSE IndexOf(items, k, n + 1)

\* k in d
DictHas(d, k) == IndexOf(d.items, k, 1) # 0

\* d.get(k, default)
DictGet(d, k, default) ==
    LET n == IndexOf(d.items, k, 1)
    IN  IF n = 0 THEN default ELSE d.items[n][2]

\* d[k] = v : an existing key keeps its position, a new key is appended
DictSet(d, k, v) ==
    LET n == IndexOf(d.items, k, 1)
    IN  IF n = 0
        THEN Dict(Append(d.items, <<k, v>>))
        ELSE Dict([d.items EXCEPT ![n] = <<k, v>>])

(***************************************************************************)
(* Exceptions.                                                             *)
(***************************************************************************)
Exc(cls, msg) == [cls |-> cls, msg |-> msg]

\* isinstance(e, Exception): CancelledError and KeyboardInterrupt derive
\* from BaseException only.
IsException(e) == e.cls \notin {"CancelledError", "KeyboardInterrupt"}

\* str(e)
StrOf(e) == Str(e.msg)

(***************************************************************************)
(* json.loads on a token text.                                             *)
(***************************************************************************)
StringTokens == {"\"status\"", "\"reason\"", "\"UP\"", "\"DOWN\"", "\"ok\""}

Tokens == StringTokens \cup {"{", "}", "[", "]", ":", ",", "null", "1", "not", "json"}

\* the text of a JSON string literal
Unquote(tok) ==
    CASE tok = "\"status\"" -> "status"
      [] tok = "\"reason\"" -> "reason"
      [] tok = "\"UP\""     -> "UP"
      [] tok = "\"DOWN\""   -> "DOWN"
      [] tok = "\"ok\""     -> "ok"

\* toks without its first two tokens
Drop2(toks) == SubSeq(toks, 3, Len(toks))

ParseFail == [ok |-> FALSE, val |-> None, rest |-> <<>>]

ParseOk(v, rest) == [ok |-> TRUE, val |-> v, rest |-> rest]

RECURSIVE ParseValue(_), ParseElements(_, _), ParseMembers(_, _)
\* one JSON value at the head of toks: [ok, val, rest]
ParseValue(toks) ==
    IF toks = <<>> THEN ParseFail
    ELSE LET h == Head(toks)
             r == Tail(toks)
         IN  CASE h \in StringTokens -> ParseOk(Str(<<Unquote(h)>>), r)
               [] h = "null" -> ParseOk(None, r)
               [] h = "1"    -> ParseOk(IntVal("1"), r)
               [] h = "["    ->
                    IF r # <<>> /\ Head(r) = "]"
                    THEN ParseOk(List(<<>>), Tail(r))
                    ELSE ParseElements(r, <<>>)
               [] h = "{"    ->
                    IF r # <<>> /\ Head(r) = "}"
                    THEN ParseOk(EmptyDict, Tail(r))
                    ELSE ParseMembers(r, EmptyDict)
               [] OTHER -> ParseFail

\* value ("," value)* "]"
ParseElements(toks, acc) ==
    LET e == ParseValue(toks)
    IN  IF ~e.ok \/ e.rest = <<>> THEN ParseFail
        ELSE IF Head(e.rest) = "]" THEN ParseOk(List(Append(acc, e.val)), Tail(e.rest))
        ELSE IF Head(e.rest) = "," THEN ParseElements(Tail(e.rest), Append(acc, e.val))
        ELSE ParseFail

\* string ":" value ("," string ":" value)* "}" ; a repeated key keeps the
\* last value
ParseMembers(toks, acc) ==
    IF Len(toks) < 2 \/ Head(toks) \notin StringTokens \/ toks[2] # ":" THEN ParseFail
    ELSE LET k == <<Unquote(Head(toks))>>
             e == ParseValue(Drop2(toks))
         IN  IF ~e.ok \/ e.rest = <<>> THEN ParseFail
             ELSE IF Head(e.rest) = "}"
                  THEN ParseOk(DictSet(acc, k, e.val), Tail(e.rest))
             ELSE IF Head(e.rest) = ","
                  THEN ParseMembers(Tail(e.rest), DictSet(acc, k, e.val))
             ELSE ParseFail

\* json.loads(text): [ok |-> TRUE, val] or a JSONDecodeError; text left
\* over after the value is an error ("Extra data")
json_loads(text) ==
    LET p == ParseValue(text)
    IN  IF p.ok /\ p.rest = <<>> THEN [ok |-> TRUE, val |-> p.val]
        ELSE [ok |-> FALSE, val |-> None]

(***************************************************************************)
(* How a block of code ends: it returns a value or raises an exception.    *)
(***************************************************************************)
Return(v) == [kind |-> "return", value |-> v]

Raise(e) == [kind |-> "raise", exc |-> e]

NoPending == [kind |-> "none"]

Outcome(status, url, error) == [status |-> status, url |-> url, error |-> error]

\* the mutation of VerdictError that forgets the UP case
VerdictErrorAlways(analysis, is_up) ==
    DictGet(analysis, <<"reason">>, Str(<<"No reason provided">>))

\* line 126
VerdictError(analysis, is_up) ==
    IF ~is_up
    THEN DictGet(analysis, <<"reason">>, Str(<<"No reason provided">>))
    ELSE None

\* check_website lines 116-134: from the agent's final text to the way the
\* inner try block ends.  last_message is a str, or None when
\* final_result() gave nothing.
Verdict(name, url, last_message) ==
    IF last_message.t # "str"
    THEN \* line 117: last_message[:200]
         Raise(Exc("TypeError",
                   <<"'", TypeName(last_message), "' object is not subscriptable">>))
    ELSE LET analysis == json_loads(last_message.s)
         IN  IF ~analysis.ok
             THEN Return(<<name, Outcome("DOWN", url,
                     Str(<<"Invalid response format: ">> \o last_message.s))>>)
             ELSE IF analysis.val.t # "dict"
             THEN \* line 120: analysis.get
                  Raise(Exc("AttributeError",
                      <<"'", TypeName(analysis.val), "' object has no attribute 'get'">>))
             ELSE LET is_up == DictGet(analysis.val, <<"status">>, None) = Str(<<"UP">>)
                  IN  Return(<<name, Outcome(IF is_up THEN "UP" ELSE "DOWN", url,
                                  VerdictError(analysis.val, is_up))>>)

(***************************************************************************)
(* The site catalog and the list of checks built from it.                  *)
(***************************************************************************)
\* WEBSITES, scaled down: category -> (name -> url), both in source order.
\* The second category spans two batches.
WEBSITES ==
    Dict(<< <<"Gaming", Dict(<< <<"Roblox", "https://www.roblox.com">> >>)>>,
            <<"Google Services", Dict(<< <<"Google", "https://www.google.com">>,
                                         <<"Gmail", "https://gmail.com">> >>)>>,
            <<"Finance & Banking", Dict(<< <<"Dave", "https://dave.com">> >>)>> >>)

RECURSIVE SitesOf(_, _, _), Flatten(_, _)
\* the inner loop of lines 184-185 from position n on
SitesOf(category, websites, n) ==
    IF n > Len(websites.items) THEN <<>>
    ELSE << <<websites.items[n][1], websites.items[n][2], category>> >>
         \o SitesOf(category, websites, n + 1)

\* the outer loop of lines 183-185 from position n on
Flatten(d, n) ==
    IF n > Len(d.items) THEN <<>>
    ELSE SitesOf(d.items[n][1], d.items[n][2], 1) \o Flatten(d, n + 1)

\* all_checks: (name, url, category) in catalog order
all_checks == Flatten(WEBSITES, 1)

NumChecks == Len(all_checks)

Min(a, b) == IF a < b THEN a ELSE b

\* the mutation of BatchOf that puts every remaining site in the batch
BatchOfAllRemaining(k) == (k + 1)..NumChecks

\* the mutation of BatchOf whose slice is one site too long
BatchOfOneMore(k) == (k + 1)..Min(k + batch_size + 1, NumChecks)

\* the positions in all_checks of all_checks[k:k + batch_size]
BatchOf(k) == (k + 1)..Min(k + batch_size, NumChecks)

VARIABLES
    pc,           \* where main() and the __main__ block stand
    results,      \* main's local `results`: unbound, or the report
    i,            \* the batch loop's offset into all_checks
    task,         \* one check_website task per position of all_checks
    exc,          \* the exception main() is propagating, if any
    artifact,     \* website_status.json
    console,      \* the lines printed by the summary
    exit_status,  \* the process's exit status, -1 while it runs
    sigint,       \* SIGINT: not received, main's cancellation pending, or delivered
    cancel_req,   \* per task: the cancellation gather passed on to it, if any
    calls,        \* history: per site, how often each call of its check was made
    count         \* history: how often main started a batch, slept, wrote, printed

vars == <<pc, results, i, task, exc, artifact, console, exit_status,
          sigint, cancel_req, calls, count>>

Unbound == [t |-> "unbound"]

Report(categories) == [t |-> "report", timestamp |-> "ts", categories |-> categories]

NoExc == Exc("none", <<>>)

Unset == [t |-> "unset"]

\* a task's frame: where the coroutine stands, how its try blocks are
\* about to end, the local last_message, and (history) the last exception
\* raised anywhere on the check's path
Task(p, pending, last_message, raised) ==
    [pc |-> p, pending |-> pending, last_message |-> last_message, raised |-> raised]

NewTask == Task("new", NoPending, Unset, NoExc)

PriorArtifact == [t |-> "prior"]

\* nothing of a site's check has happened yet: no task made for it, no
\* browser session built, no tab opened, no agent run, nothing closed
NoCalls == [task |-> 0, session |-> 0, tab |-> 0, agent |-> 0,
            page_close |-> 0, session_close |-> 0]

\* main has started no batch, slept for no delay, entered the finally block
\* at no time, written no artifact and begun no summary
NoCounts == [batches |-> 0, sleeps |-> 0, finalize |-> 0, writes |-> 0, summaries |-> 0]

\* calls, after each call of `names` was made once more for site j
Called(j, names) ==
    [calls EXCEPT ![j] = [c \in DOMAIN @ |-> IF c \in names THEN @[c] + 1 ELSE @[c]]]

\* count, after what `name` counts happened once more
Counted(name) == [count EXCEPT ![name] = @ + 1]

Init ==
    /\ pc = "setup"
    /\ results = Unbound
    /\ i = 0
    /\ task = [j \in 1..NumChecks |-> NewTask]
    /\ exc = NoExc
    /\ artifact = PriorArtifact
    /\ console = <<>>
    /\ exit_status = -1
    /\ sigint = "none"
    /\ cancel_req = [j \in 1..NumChecks |-> "none"]
    /\ calls = [j \in 1..NumChecks |-> NoCalls]
    /\ count = NoCounts

(***************************************************************************)
(* main(), lines 171-186.                                                  *)
(***************************************************************************)
\* ChatOllama(...) succeeds; results and all_checks are built
SetupOk ==
    /\ pc = "setup"
    /\ results' = Report(EmptyDict)
    /\ i' = 0
    /\ pc' = "loop"
    /\ UNCHANGED <<task, exc, artifact, console, exit_status, sigint, cancel_req, calls, count>>

\* ChatOllama(...) raises: lines 206-208 log and re-raise, the finally
\* block runs with `results` never assigned
SetupFails ==
    /\ pc = "setup"
    /\ exc' = Exc("RuntimeError", <<"llm unavailable">>)
    /\ pc' = "finalize"
    /\ count' = Counted("finalize")
    /\ UNCHANGED <<results, i, task, artifact, console, exit_status, sigint, cancel_req, calls>>

(***************************************************************************)
(* check_website, lines 101-145: one task per site.  Every await ends in   *)
(* one of three ways: it returns, it raises an Exception, or it raises     *)
(* CancelledError (a BaseException).  When SIGINT cancelled main() at its   *)
(* await of gather, gather cancels every task that is not done: a task     *)
(* that has not begun ends at once, any other gets CancelledError at the    *)
(* await it stands at, and goes on through its finally blocks.             *)
(***************************************************************************)
Fails(where) == Exc("RuntimeError", <<where, " failed">>)

Cancelled == Exc("CancelledError", <<>>)

\* what the call task j awaits may raise: the cancellation passed on to
\* the task, or else what the browser or the agent may raise
Raised(j, where) ==
    IF cancel_req[j] = "at_await" THEN {Cancelled} ELSE {Fails(where), Cancelled}

\* the cancellation passed on to task j, if any, has been thrown
Thrown(j) == [cancel_req EXCEPT ![j] = "none"]

NameOf(j) == all_checks[j][1]

UrlOf(j) == all_checks[j][2]

CategoryOf(j) == all_checks[j][3]

\* lines 137-143: `except Exception` turns an Exception leaving the outer
\* try block into a returned DOWN outcome; anything else passes through
ExceptHandler(name, url, p) ==
    IF p.kind = "raise" /\ IsException(p.exc)
    THEN Return(<<name, Outcome("DOWN", url, StrOf(p.exc))>>)
    ELSE p

\* an agent history whose final_result() is v
History(v) == [truthy |-> TRUE, final |-> v]

\* a falsy result of agent.run()
NoHistory == [truthy |-> FALSE, final |-> None]

\* line 116
LastMessage(result) == IF result.truthy THEN result.final ELSE Str(<<>>)

\* the final texts the agent gives in the runs of the whole program (the
\* parser's specification below draws from a wider set)
UpText == <<"{", "\"status\"", ":", "\"UP\"", ",", "\"reason\"", ":", "\"ok\"", "}">>

DownText == <<"{", "\"status\"", ":", "\"DOWN\"", ",", "\"reason\"", ":", "\"ok\"", "}">>

DownNullReasonText == <<"{", "\"status\"", ":", "\"DOWN\"", ",", "\"reason\"", ":", "null", "}">>

AgentResults ==
    {History(Str(text)) : text \in {UpText, DownText, DownNullReasonText,
                                    <<"not", "json">>}}

\* the exception a block ending as p is raising, if any
RaisedBy(p, before) == IF p.kind = "raise" THEN p.exc ELSE before

\* line 104: BrowserSession(...) raises before the try block is entered
SessionCtorFails(j) ==
    /\ pc = "gather" /\ task[j].pc = "start" /\ cancel_req[j] = "none"
    /\ LET e == Fails("BrowserSession")
       IN  task' = [task EXCEPT ![j] = Task("done", Raise(e), Unset, e)]
    /\ UNCHANGED <<pc, results, i, exc, artifact, console, exit_status, sigint, count,
                   cancel_req, calls>>

\* the task was cancelled before its first step: CancelledError is thrown
\* into the coroutine before line 102, and nothing of the check happens
CancelledBeforeStart(j) ==
    /\ pc = "gather" /\ task[j].pc = "start" /\ cancel_req[j] = "before_start"
    /\ task' = [task EXCEPT ![j] = Task("done", Raise(Cancelled), Unset, Cancelled)]
    /\ cancel_req' = Thrown(j)
    /\ UNCHANGED <<pc, results, i, exc, artifact, console, exit_status, sigint, count, calls>>

\* the mutation of StartSession in which start() is awaited outside the
\* try block, so that its failure ends the check without close()
StartSessionOutsideTry(j) ==
    /\ pc = "gather" /\ task[j].pc = "start" /\ cancel_req[j] # "before_start"
    /\ \/ /\ cancel_req[j] = "none"
          /\ task' = [task EXCEPT ![j] = Task("new_tab", NoPending, Unset, NoExc)]
       \/ \E e \in Raised(j, "start") :
            task' = [task EXCEPT ![j] = Task("done", Raise(e), Unset, e)]
    /\ calls' = Called(j, {"session"})
    /\ cancel_req' = Thrown(j)
    /\ UNCHANGED <<pc, results, i, exc, artifact, console, exit_status, sigint, count>>

\* lines 102-106: await browser_session.start()
StartSession(j) ==
    /\ pc = "gather" /\ task[j].pc = "start" /\ cancel_req[j] # "before_start"
    /\ \/ /\ cancel_req[j] = "none"
          /\ task' = [task EXCEPT ![j] = Task("new_tab", NoPending, Unset, NoExc)]
       \/ \E e \in Raised(j, "start") :
            task' = [task EXCEPT ![j] =
                Task("session_close", ExceptHandler(NameOf(j), UrlOf(j), Raise(e)),
                     Unset, e)]
    /\ calls' = Called(j, {"session"})
    /\ cancel_req' = Thrown(j)
    /\ UNCHANGED <<pc, results, i, exc, artifact, console, exit_status, sigint, count>>

\* line 107: await browser_session.new_tab()
NewTab(j) ==
    /\ pc = "gather" /\ task[j].pc = "new_tab"
    /\ \/ /\ cancel_req[j] = "none"
          /\ task' = [task EXCEPT ![j] = Task("run", NoPending, Unset, NoExc)]
          /\ calls' = Called(j, {"tab"})
       \/ /\ \E e \in Raised(j, "new_tab") :
                task' = [task EXCEPT ![j] =
                    Task("session_close", ExceptHandler(NameOf(j), UrlOf(j), Raise(e)),
                         Unset, e)]
          /\ calls' = calls
    /\ cancel_req' = Thrown(j)
    /\ UNCHANGED <<pc, results, i, exc, artifact, console, exit_status, sigint, count>>

\* lines 115-134: agent.run() returned `result`; the verdict is computed
\* and the inner finally block (page.close) comes next
AgentReturns(j, result) ==
    /\ pc = "gather" /\ task[j].pc = "run" /\ cancel_req[j] = "none"
    /\ LET v == Verdict(NameOf(j), UrlOf(j), LastMessage(result))
       IN  task' = [task EXCEPT ![j] =
               Task("page_close", v, LastMessage(result), RaisedBy(v, NoExc))]
    /\ calls' = Called(j, {"agent"})
    /\ cancel_req' = cancel_req
    /\ UNCHANGED <<pc, results, i, exc, artifact, console, exit_status, sigint, count>>

\* lines 109-134: await agent.run(), which returns or raises
AgentRun(j) ==
    \/ \E result \in AgentResults : AgentReturns(j, result)
    \/ /\ pc = "gather" /\ task[j].pc = "run"
       /\ \E e \in Raised(j, "agent.run") :
            task' = [task EXCEPT ![j] = Task("page_close", Raise(e), Unset, e)]
       /\ calls' = Called(j, {"agent"})
       /\ cancel_req' = Thrown(j)
       /\ UNCHANGED <<pc, results, i, exc, artifact, console, exit_status, sigint, count>>

\* lines 135-143: await page.close() in the inner finally block; an
\* exception it raises replaces the way the block was ending; then the
\* outer `except Exception`
PageClose(j) ==
    /\ pc = "gather" /\ task[j].pc = "page_close"
    /\ \/ /\ cancel_req[j] = "none"
          /\ task' = [task EXCEPT ![j] =
                Task("session_close", ExceptHandler(NameOf(j), UrlOf(j), task[j].pending),
                     task[j].last_message, task[j].raised)]
       \/ \E e \in Raised(j, "page.close") :
            task' = [task EXCEPT ![j] =
                Task("session_close", ExceptHandler(NameOf(j), UrlOf(j), Raise(e)),
                     task[j].last_message, e)]
    /\ calls' = Called(j, {"page_close"})
    /\ cancel_req' = Thrown(j)
    /\ UNCHANGED <<pc, results, i, exc, artifact, console, exit_status, sigint, count>>

\* lines 144-145: await browser_session.close() in the outer finally
\* block; the task then ends as pending says, or with what close() raised
SessionClose(j) ==
    /\ pc = "gather" /\ task[j].pc = "session_close"
    /\ \/ /\ cancel_req[j] = "none"
          /\ task' = [task EXCEPT ![j] =
                Task("done", task[j].pending, Unset, task[j].raised)]
       \/ \E e \in Raised(j, "session.close") :
            task' = [task EXCEPT ![j] = Task("done", Raise(e), Unset, e)]
    /\ calls' = Called(j, {"session_close"})
    /\ cancel_req' = Thrown(j)
    /\ UNCHANGED <<pc, results, i, exc, artifact, console, exit_status, sigint, count>>

(***************************************************************************)
(* main(), lines 187-205: the batch loop.                                  *)
(***************************************************************************)
\* lines 147-152 and 190: process_batch makes one check_website task per
\* site of the batch; asyncio.gather(return_exceptions=True) runs them
\* if SIGINT already cancelled main(), the cancellation is thrown at this
\* await, and gather passes it on to tasks that have not begun
StartBatch ==
    /\ pc = "loop" /\ i < NumChecks
    /\ task' = [j \in 1..NumChecks |->
                   IF j \in BatchOf(i) THEN Task("start", NoPending, Unset, NoExc) ELSE task[j]]
    /\ pc' = "gather"
    /\ cancel_req' = [j \in 1..NumChecks |->
                         IF j \in BatchOf(i) /\ sigint = "pending" THEN "before_start"
                         ELSE "none"]
    /\ calls' = [j \in 1..NumChecks |->
                    IF j \in BatchOf(i) THEN [calls[j] EXCEPT !.task = @ + 1] ELSE calls[j]]
    /\ count' = Counted("batches")
    /\ UNCHANGED <<results, i, exc, artifact, console, exit_status, sigint>>

\* the mutation of MergeOne that logs a captured exception and moves on
\* without recording the site
MergeOneDropsFailed(categories, site, result) ==
    LET category == site[3]
        cats == IF ~DictHas(categories, category)
                THEN DictSet(categories, category, EmptyDict)
                ELSE categories
    IN  IF result.kind = "raise" /\ IsException(result.exc)
        THEN [categories |-> cats, exc |-> NoExc]
        ELSE IF result.kind = "raise"
        THEN [categories |-> cats,
              exc |-> Exc("TypeError",
                  <<"cannot unpack non-iterable ", result.exc.cls, " object">>)]
        ELSE [categories |-> DictSet(cats, category,
                  DictSet(DictGet(cats, category, EmptyDict),
                          result.value[1], result.value[2])),
              exc |-> NoExc]

\* lines 192-203 for one (site, result) pair of the zip: the categories
\* after it, and the exception it raises, if any
MergeOne(categories, site, result) ==
    LET name == site[1]
        url == site[2]
        category == site[3]
        cats == IF ~DictHas(categories, category)
                THEN DictSet(categories, category, EmptyDict)
                ELSE categories
        put(n, data) == DictSet(cats, category,
                                DictSet(DictGet(cats, category, EmptyDict), n, data))
    IN  IF result.kind = "raise" /\ IsException(result.exc)
        THEN [categories |-> put(name, Outcome("DOWN", url, StrOf(result.exc))),
              exc |-> NoExc]
        ELSE IF result.kind = "raise"
        THEN \* line 202: `name, data = result` on a CancelledError
             [categories |-> cats,
              exc |-> Exc("TypeError",
                  <<"cannot unpack non-iterable ", result.exc.cls, " object">>)]
        ELSE [categories |-> put(result.value[1], result.value[2]), exc |-> NoExc]

RECURSIVE MergeFrom(_, _, _, _)
\* the loop of lines 191-203 over positions k..last of all_checks; it stops
\* at the first pair that raises
MergeFrom(categories, k, last, batch_results) ==
    IF k > last THEN [categories |-> categories, exc |-> NoExc]
    ELSE LET one == MergeOne(categories, all_checks[k], batch_results[k])
         IN  IF one.exc # NoExc THEN one
             ELSE MergeFrom(one.categories, k + 1, last, batch_results)

\* gather's future is done when every task of the batch is
BatchDone == \A j \in BatchOf(i) : task[j].pc = "done"

\* the mutation of BatchResults that lists the results of the batch in the
\* reverse of the order of its tasks
BatchResultsReversed ==
    [j \in 1..NumChecks |->
        IF j \in BatchOf(i)
        THEN task[i + 1 + Min(i + batch_size, NumChecks) - j].pending
        ELSE task[j].pending]

\* gather's list, in the order of the tasks: the value a task returned or
\* the exception it raised
BatchResults == [j \in 1..NumChecks |-> task[j].pending]

\* the mutation of MoreBatches that delays after every batch
MoreBatchesAlways(k) == TRUE

\* line 204: the batch at offset k is not the last one
MoreBatches(k) == k + batch_size < NumChecks

\* lines 190-204: the await of gather returns and its results are merged;
\* an exception in the merge is logged by lines 206-208 and re-raised
Merge ==
    /\ pc = "gather" /\ BatchDone /\ sigint = "none"
    /\ LET m == MergeFrom(results.categories, i + 1, Min(i + batch_size, NumChecks),
                          BatchResults)
       IN  /\ results' = Report(m.categories)
           /\ exc' = m.exc
           /\ IF m.exc # NoExc THEN /\ pc' = "finalize"
                                    /\ i' = i
                                    /\ count' = Counted("finalize")
              ELSE IF MoreBatches(i) THEN /\ pc' = "sleep"
                                          /\ i' = i
                                          /\ count' = Counted("sleeps")
              ELSE /\ pc' = "loop"
                   /\ i' = i + batch_size
                   /\ count' = count
    /\ UNCHANGED <<task, artifact, console, exit_status, sigint, cancel_req, calls>>

\* line 190: main() was cancelled at its await of gather; once every task
\* of the batch is done, the await raises CancelledError, which no except
\* clause of main() catches
GatherCancelled ==
    /\ pc = "gather" /\ BatchDone /\ sigint = "pending"
    /\ exc' = Cancelled
    /\ sigint' = "delivered"
    /\ pc' = "finalize"
    /\ count' = Counted("finalize")
    /\ UNCHANGED <<results, i, task, artifact, console, exit_status, cancel_req, calls>>

\* line 205: await asyncio.sleep(1), then the next iteration
Sleep ==
    /\ pc = "sleep" /\ sigint = "none"
    /\ i' = i + batch_size
    /\ pc' = "loop"
    /\ UNCHANGED <<results, task, exc, artifact, console, exit_status, sigint, cancel_req, calls, count>>

\* line 205: main() was cancelled at its await of the delay
SleepCancelled ==
    /\ pc = "sleep" /\ sigint = "pending"
    /\ exc' = Cancelled
    /\ sigint' = "delivered"
    /\ pc' = "finalize"
    /\ count' = Counted("finalize")
    /\ UNCHANGED <<results, i, task, artifact, console, exit_status, cancel_req, calls>>

\* line 187: the range is exhausted; the finally block runs
LoopDone ==
    /\ pc = "loop" /\ i >= NumChecks
    /\ pc' = "finalize"
    /\ count' = Counted("finalize")
    /\ UNCHANGED <<results, i, task, exc, artifact, console, exit_status, sigint, cancel_req, calls>>

(***************************************************************************)
(* main(), lines 209-221: the finally block.                               *)
(***************************************************************************)
\* the mutation of Document that writes the report without its outcomes
DocumentWithoutOutcomes(r) ==
    [t |-> "json", timestamp |-> r.timestamp, categories |-> EmptyDict]

\* the JSON document json.dump writes for the report: its value tree
Document(r) == [t |-> "json", timestamp |-> r.timestamp, categories |-> r.categories]

Truncated == [t |-> "empty"]

\* lines 211-212 succeed
WriteOk ==
    /\ pc = "finalize" /\ results # Unbound
    /\ artifact' = Document(results)
    /\ pc' = "summary"
    /\ count' = Counted("writes")
    /\ UNCHANGED <<results, i, task, exc, console, exit_status, sigint, cancel_req, calls>>

\* line 211: open(..., "w") raises; the rest of the finally block is
\* skipped and the error replaces whatever main was propagating
WriteOpenFails ==
    /\ pc = "finalize"
    /\ exc' = Exc("PermissionError", <<"website_status.json">>)
    /\ pc' = "main_exit"
    /\ UNCHANGED <<results, i, task, artifact, console, exit_status, sigint, cancel_req, calls, count>>

\* line 212: the file is open (and so truncated) and json.dump raises:
\* `results` was never assigned, or the write fails
WriteDumpFails ==
    /\ pc = "finalize"
    /\ artifact' = Truncated
    /\ exc' = IF results = Unbound
              THEN Exc("UnboundLocalError",
                       <<"cannot access local variable 'results' where it is not associated with a value">>)
              ELSE Exc("OSError", <<"write failed">>)
    /\ pc' = "main_exit"
    /\ UNCHANGED <<results, i, task, console, exit_status, sigint, cancel_req, calls, count>>

\* str() of a value put into an f-string
Format(v) ==
    CASE v.t = "str" -> v.s
      [] v.t = "int" -> v.s
      [] v.t = "None" -> <<"None">>

\* lines 216-220 for one site
SiteLines(name, data) ==
    << <<IF data.status = "UP" THEN "OK" ELSE "X", " ", name, ": ", data.status>> >>
    \o (IF Truthy(data.error) THEN << <<"   Error: ">> \o Format(data.error) >> ELSE <<>>)

RECURSIVE WebsiteLines(_, _), CategoryLines(_, _)
WebsiteLines(websites, n) ==
    IF n > Len(websites.items) THEN <<>>
    ELSE SiteLines(websites.items[n][1], websites.items[n][2])
         \o WebsiteLines(websites, n + 1)

\* lines 214-220 from category n on
CategoryLines(categories, n) ==
    IF n > Len(categories.items) THEN <<>>
    ELSE << <<categories.items[n][1], ":">> >>
         \o WebsiteLines(categories.items[n][2], 1)
         \o CategoryLines(categories, n + 1)

\* everything lines 213-220 print
Summary(r) == << <<"=== Summary ===">> >> \o CategoryLines(r.categories, 1)

\* lines 213-221 succeed; main() then returns, or re-raises what it was
\* propagating
SummaryOk ==
    /\ pc = "summary"
    /\ console' = Summary(results)
    /\ pc' = "main_exit"
    /\ count' = Counted("summaries")
    /\ UNCHANGED <<results, i, task, exc, artifact, exit_status, sigint, cancel_req, calls>>

\* a print raises: the first one, or the last one after every other line
\* was printed
SummaryFails ==
    /\ pc = "summary"
    /\ \E n \in {0, Len(Summary(results)) - 1} :
            console' = SubSeq(Summary(results), 1, n)
    /\ exc' = Exc("OSError", <<"print failed">>)
    /\ pc' = "main_exit"
    /\ count' = Counted("summaries")
    /\ UNCHANGED <<results, i, task, artifact, exit_status, sigint, cancel_req, calls>>

(***************************************************************************)
(* The __main__ block, lines 223-230.                                      *)
(***************************************************************************)
\* the status the process exits with when asyncio.run(main()) ends with e
ExitStatus(e) ==
    IF e = NoExc THEN 0
    ELSE IF e.cls = "KeyboardInterrupt" THEN 0
    ELSE 1

\* line 225: what asyncio.run(main()) ends with.  When SIGINT cancelled
\* the main task and main() ended by that CancelledError, or returned with
\* the cancellation still pending, asyncio.run raises KeyboardInterrupt;
\* any other exception of main() comes out as it is
RunResult ==
    IF sigint # "none" /\ exc \in {NoExc, Cancelled}
    THEN Exc("KeyboardInterrupt", <<>>)
    ELSE exc

\* line 225, SIGINT while asyncio.run(main()) runs: the handler asyncio.run
\* installed cancels the main task.  At the await of gather, gather passes
\* the cancellation on to every task that is not done; a task that has not
\* begun its first step (then no later task of the batch has begun, and no
\* earlier one has got past start()) is cancelled before it starts
Interrupt ==
    /\ sigint = "none"
    /\ pc \in {"setup", "loop", "gather", "sleep", "finalize", "summary"}
    /\ sigint' = "pending"
    /\ IF pc = "gather"
       THEN \E c \in [1..NumChecks -> {"none", "before_start", "at_await"}] :
               /\ \A j \in 1..NumChecks :
                     /\ c[j] = "none" <=> (j \notin BatchOf(i) \/ task[j].pc = "done")
                     /\ c[j] = "before_start" =>
                           \A k \in BatchOf(i) :
                              /\ k > j => c[k] = "before_start"
                              /\ k < j => \/ task[k].pc = "start"
                                          \/ task[k].pc = "done" /\ calls[k].session = 0
                              /\ k = j => task[k].pc = "start"
               /\ cancel_req' = c
       ELSE cancel_req' = cancel_req
    /\ UNCHANGED <<pc, results, i, task, exc, artifact, console, exit_status, calls, count>>

MainExit ==
    /\ pc = "main_exit"
    /\ exit_status' = ExitStatus(RunResult)
    /\ pc' = "exited"
    /\ UNCHANGED <<results, i, task, exc, artifact, console, sigint, cancel_req, calls, count>>

Next ==
    \/ SetupOk
    \/ SetupFails
    \/ StartBatch
    \/ Interrupt
    \/ \E j \in 1..NumChecks : SessionCtorFails(j)
    \/ \E j \in 1..NumChecks : CancelledBeforeStart(j)
    \/ \E j \in 1..NumChecks : StartSession(j)
    \/ \E j \in 1..NumChecks : NewTab(j)
    \/ \E j \in 1..NumChecks : AgentRun(j)
    \/ \E j \in 1..NumChecks : PageClose(j)
    \/ \E j \in 1..NumChecks : SessionClose(j)
    \/ Merge
    \/ GatherCancelled
    \/ Sleep
    \/ SleepCancelled
    \/ LoopDone
    \/ WriteOk
    \/ WriteOpenFails
    \/ WriteDumpFails
    \/ SummaryOk
    \/ SummaryFails
    \/ MainExit

Spec == Init /\ [][Next]_vars

(***************************************************************************)
(* The verdict on its own: one check stands at agent.run() and the agent   *)
(* returns any text of a wider set.                                        *)
(***************************************************************************)
RECURSIVE TextsUpTo(_)
\* every token text of at most n tokens
TextsUpTo(n) ==
    IF n = 0 THEN {<<>>}
    ELSE LET shorter == TextsUpTo(n - 1)
         IN  shorter \cup {Append(text, tok) : text \in shorter, tok \in Tokens}

\* key : value
Members ==
    {<<key, ":", value>> : key \in {"\"status\"", "\"reason\"", "\"ok\""},
                           value \in {"\"UP\"", "\"DOWN\"", "\"ok\"", "null", "1"}}

\* objects of one and of two members
ObjectTexts ==
    {<<"{">> \o m \o <<"}">> : m \in Members}
    \cup {<<"{">> \o m \o <<",">> \o n \o <<"}">> : m \in Members, n \in Members}

ParserResults ==
    {NoHistory, History(None)}
    \cup {History(Str(text)) : text \in TextsUpTo(MaxTokens) \cup ObjectTexts}

\* the first check after setup, start() and new_tab() succeeded
InitParser ==
    /\ pc = "gather"
    /\ results = Report(EmptyDict)
    /\ i = 0
    /\ task = [j \in 1..NumChecks |->
                  IF j = 1 THEN Task("run", NoPending, Unset, NoExc)
                  ELSE IF j \in BatchOf(0) THEN Task("start", NoPending, Unset, NoExc)
                  ELSE NewTask]
    /\ exc = NoExc
    /\ artifact = PriorArtifact
    /\ console = <<>>
    /\ exit_status = -1
    /\ sigint = "none"
    /\ cancel_req = [j \in 1..NumChecks |-> "none"]
    /\ calls = [j \in 1..NumChecks |->
                   IF j = 1 THEN [NoCalls EXCEPT !.task = 1, !.session = 1, !.tab = 1]
                   ELSE IF j \in BatchOf(0) THEN [NoCalls EXCEPT !.task = 1]
                   ELSE NoCalls]
    /\ count = [NoCounts EXCEPT !.batches = 1]

NextParser == \E result \in ParserResults : AgentReturns(1, result)

SpecParser == InitParser /\ [][NextParser]_vars

(***************************************************************************)
(* Properties.                                                             *)
(***************************************************************************)
Checks == 1..NumChecks

\* how many entries of a dict's item list have key k
CountKey(items, k) == Cardinality({n \in 1..Len(items) : items[n][1] = k})

\* the outcome categories holds for site j, under j's category and name
Held(categories, j) ==
    DictGet(DictGet(categories, CategoryOf(j), EmptyDict), NameOf(j), None)

\* categories holds exactly one outcome for site j
HeldOnce(categories, j) ==
    /\ CountKey(categories.items, CategoryOf(j)) = 1
    /\ CountKey(DictGet(categories, CategoryOf(j), EmptyDict).items, NameOf(j)) = 1

\* every outcome categories holds belongs to a site of the catalog
OnlyCatalog(categories) ==
    \A c \in 1..Len(categories.items) :
        \A n \in 1..Len(categories.items[c][2].items) :
            \E j \in Checks :
                /\ CategoryOf(j) = categories.items[c][1]
                /\ NameOf(j) = categories.items[c][2].items[n][1]

\* the batch loop ran to its end
LoopCompleted == results # Unbound /\ i >= NumChecks

\* the number of the batch site j belongs to, from 0
BatchIndex(j) == (j - 1) \div batch_size

\* C1: after a run whose batch loop completed normally, the report holds,
\* for every site of the catalog, exactly one outcome under the site's
\* category and name, carrying the site's url, whatever the checks did
\* (exceptions included), and holds nothing for anything outside the catalog.
C1_EverySiteReported ==
    LoopCompleted =>
        /\ \A j \in Checks :
              /\ HeldOnce(results.categories, j)
              /\ Held(results.categories, j).url = UrlOf(j)
        /\ OnlyCatalog(results.categories)

\* a completed run in which one check's exception reached gather and
\* another check's exception was turned into an outcome by check_website
C1_Witness ==
    /\ pc = "exited" /\ LoopCompleted
    /\ \E j \in Checks : task[j].pending.kind = "raise"
    /\ \E j \in Checks : task[j].pending.kind = "return" /\ task[j].raised # NoExc

\* C5: no check of a batch begins (its task is not even created, so no
\* browser session start and no agent call) before every check of every
\* earlier batch has ended and its outcome has been merged into the report.
C5_Sequencing ==
    \A j \in Checks :
        task[j].pc # "new" =>
            \A k \in Checks :
                BatchIndex(k) < BatchIndex(j) =>
                    /\ task[k].pc = "done"
                    /\ results # Unbound
                    /\ HeldOnce(results.categories, k)

\* a check of the second batch is about to call the agent
C5_Witness ==
    \E j \in Checks : BatchIndex(j) > 0 /\ task[j].pc = "run"

\* last_message is text that json.loads turns into an object
ParsesAsObject(m) ==
    /\ m.t = "str"
    /\ json_loads(m.s).ok
    /\ json_loads(m.s).val.t = "dict"

\* the object has a member named k
HasField(obj, k) == \E n \in 1..Len(obj.items) : obj.items[n][1] = <<k>>

\* the value of the object's member named k
Field(obj, k) ==
    obj.items[CHOOSE n \in 1..Len(obj.items) : obj.items[n][1] = <<k>>][2]

StatusIsUp(obj) == HasField(obj, "status") /\ Field(obj, "status") = Str(<<"UP">>)

\* the outcome section 4.1 gives for an object
ExpectedOutcome(obj, url) ==
    IF StatusIsUp(obj) THEN Outcome("UP", url, None)
    ELSE Outcome("DOWN", url,
                 IF HasField(obj, "reason") THEN Field(obj, "reason")
                 ELSE Str(<<"No reason provided">>))

\* C7: for every agent text that parses as a JSON object, the verdict is
\* {UP, error None} when the status member equals "UP", and otherwise
\* (status missing or anything else) {DOWN, error = the reason member, or
\* "No reason provided" when the object has no reason member}.
C7_ParsedVerdict ==
    \A j \in Checks :
        (task[j].pc = "page_close" /\ ParsesAsObject(task[j].last_message)) =>
            task[j].pending =
                Return(<<NameOf(j),
                         ExpectedOutcome(json_loads(task[j].last_message.s).val, UrlOf(j))>>)

\* verdicts were computed for an object without status and without reason
C7_Witness ==
    \E j \in Checks :
        /\ task[j].pc = "page_close" /\ ParsesAsObject(task[j].last_message)
        /\ ~HasField(json_loads(task[j].last_message.s).val, "status")
        /\ ~HasField(json_loads(task[j].last_message.s).val, "reason")
        /\ task[j].pending.kind = "return"
        /\ task[j].pending.value[2].status = "DOWN"

\* site j is held once by the report, with this outcome
Recorded(j, outcome) ==
    /\ results # Unbound
    /\ HeldOnce(results.categories, j)
    /\ Held(results.categories, j) = outcome

\* the outcome with which an exception e of site j's check is to be recorded
DownWith(j, e) == Outcome("DOWN", UrlOf(j), StrOf(e))

\* the run is over, or its batch loop is past the batch of site j
BatchSettled(j) == pc # "gather" \/ i >= BatchIndex(j) * batch_size + batch_size

\* C2: when the LLM client initialization raises, before any check and
\* before the report exists, finalization still executes: by the time the
\* failure has propagated out of the run the output artifact has been
\* written and the console summary has been printed.
C2_FinalizationAfterSetupFailure ==
    (pc = "exited" /\ results = Unbound) =>
        /\ artifact.t = "json"
        /\ console # <<>>

\* C3: a failing finalization step does not stop the remaining steps: when
\* writing the output artifact raises (here after a batch loop that ran to
\* its end), the per-site summary is still printed.
C3_BestEffortFinalization ==
    (pc = "exited" /\ LoopCompleted /\ artifact.t # "json") =>
        console = Summary(results)

\* C4: if the check of one site raises within a batch, the other sites of
\* that batch are in the final report, each with exactly the outcome its
\* own check produced, whatever the interleaving of the checks was (in a
\* run no user interrupt cancelled).
C4_BatchIsolation ==
    (pc = "exited" /\ sigint = "none") =>
        \A k \in Checks :
            (task[k].pc = "done" /\ task[k].raised # NoExc) =>
                \A j \in Checks \ {k} :
                    (BatchIndex(j) = BatchIndex(k) /\ task[j].pc = "done"
                        /\ task[j].pending.kind = "return") =>
                            Recorded(j, task[j].pending.value[2])

\* C6: an exception raised anywhere on one site's check path (session
\* start, tab open, agent run, handling of the agent's output, page close,
\* session close, cancellation of that check) never aborts the batch or
\* the run: once the batch is merged the site is recorded DOWN with the
\* exception's message as its error (in a run no user interrupt cancelled).
C6_CheckFailureCaptured ==
    \A j \in Checks :
        (task[j].pc = "done" /\ task[j].raised # NoExc /\ BatchSettled(j)
            /\ sigint = "none") =>
                /\ Recorded(j, DownWith(j, task[j].raised))
                /\ exc.cls # "TypeError"

\* the text of last_message as an f-string shows it
RawText(m) == IF m.t = "str" THEN m.s ELSE <<"None">>

\* C8: for every agent output that cannot be parsed as a JSON object
\* (malformed or non-JSON text, an empty or missing final result, JSON
\* whose value is not an object) the outcome is DOWN with the error
\* "Invalid response format: " followed by the raw text, and the parse
\* failure does not leave the parser as an exception.
C8_ParseFailureVerdict ==
    \A j \in Checks :
        (task[j].pc = "page_close" /\ task[j].last_message # Unset
            /\ ~ParsesAsObject(task[j].last_message)) =>
                task[j].pending =
                    Return(<<NameOf(j),
                             Outcome("DOWN", UrlOf(j),
                                 Str(<<"Invalid response format: ">>
                                     \o RawText(task[j].last_message)))>>)

\* every outcome the categories hold satisfies P
AllOutcomes(categories, P(_)) ==
    \A c \in 1..Len(categories.items) :
        \A n \in 1..Len(categories.items[c][2].items) :
            P(categories.items[c][2].items[n][2])

ErrorIffDown(data) ==
    /\ data.error.t \in {"str", "None"}
    /\ data.error.t = "str" <=> data.status = "DOWN"

\* C9: in every outcome stored in the report, whichever path produced it,
\* the error is a string exactly when the status is DOWN: UP always has
\* error None and DOWN never has.
C9_ErrorIffDown ==
    results # Unbound => AllOutcomes(results.categories, ErrorIffDown)

\* site j has an outcome in the written artifact
InArtifact(j) ==
    /\ DictHas(artifact.categories, CategoryOf(j))
    /\ DictHas(DictGet(artifact.categories, CategoryOf(j), EmptyDict), NameOf(j))

\* C10: when the run aborts with an exception after the outcomes of the
\* first K batches were merged and before the last batch finished, the
\* artifact is still written and holds exactly the outcomes of batches
\* 1..K, nothing of a later batch, and the summary of those outcomes is
\* printed.
C10_PartialReportWritten ==
    (pc = "exited" /\ results # Unbound /\ 0 < i /\ i < NumChecks
        /\ exc.cls \notin {"PermissionError", "OSError"}) =>
            /\ artifact = Document(results)
            /\ \A j \in Checks : InArtifact(j) <=> j <= i
            /\ console = Summary(results)

\* categories holds at most one outcome for site j
HeldAtMostOnce(categories, j) ==
    /\ CountKey(categories.items, CategoryOf(j)) <= 1
    /\ CountKey(DictGet(categories, CategoryOf(j), EmptyDict).items, NameOf(j)) <= 1

\* C11 as stated: whenever the artifact is written, every site of the
\* catalog has exactly one outcome in the written report (a run that aborts
\* before all sites have outcomes writes nothing).
C11_WrittenReportComplete ==
    artifact.t = "json" => \A j \in Checks : HeldOnce(artifact.categories, j)

\* C11 amended: whenever the artifact is written it is the report as
\* populated so far: outcomes of catalog sites only, at most one per site,
\* only of sites whose batch was started, and exactly one for every site
\* when the batch loop ran to its end; a run that aborts earlier writes this
\* partial report.
C11_WrittenReportAsPopulated ==
    artifact.t = "json" =>
        /\ artifact.categories = results.categories
        /\ OnlyCatalog(artifact.categories)
        /\ \A j \in Checks :
              /\ HeldAtMostOnce(artifact.categories, j)
              /\ InArtifact(j) => calls[j].task = 1
              /\ LoopCompleted => HeldOnce(artifact.categories, j)

\* a partial report was written: after a user interrupt the artifact holds
\* outcomes of some sites and none of others
C11_Witness ==
    /\ artifact.t = "json" /\ sigint = "delivered" /\ ~LoopCompleted
    /\ \E j \in Checks : InArtifact(j)
    /\ \E j \in Checks : ~InArtifact(j)

\* C12: the process exits 0 after a run that completed normally, and a
\* non-zero status after a setup failure.  Only a setup failure changes the
\* exit status: after a batch loop that ran to its end, whatever the checks
\* did (failures, unparsable output) and whatever the finalization did
\* (error writing the artifact or printing the summary), the status is 0.
C12_ExitStatus ==
    pc = "exited" =>
        /\ results = Unbound => exit_status = 1
        /\ LoopCompleted => exit_status = 0

\* C13: if a user interrupt arrives at any point of a run whose setup
\* succeeded (before the first batch, while a batch is in flight, during the
\* delay, during the finalization), then before the process terminates the
\* finalization was attempted (the finally block entered once, the summary
\* begun after the write), every browser session a check opened was closed,
\* and the process terminates without an error status.
C13_InterruptFinalizes ==
    (pc = "exited" /\ sigint # "none" /\ results # Unbound) =>
        /\ count.finalize = 1
        /\ count.summaries = 1
        /\ \A j \in Checks : calls[j].session_close = calls[j].session
        /\ exit_status = 0

\* the outcome the check of site j produced: the one it returned, or DOWN
\* with the message of the exception it raised
OwnOutcome(j) ==
    IF task[j].pending.kind = "return" THEN task[j].pending.value[2]
    ELSE DownWith(j, task[j].pending.exc)

\* the outcomes the report holds, as (name, outcome, category) in the
\* report's order
Stored == Flatten(results.categories, 1)

\* C14: whatever the order in which the checks of a batch completed, every
\* outcome in the report is stored under the category and the name of the
\* site whose check produced it and carries that site's url: the n-th
\* outcome of the report is the own outcome of the n-th site of the
\* catalog, so the report depends on the per-site results only.
C14_OutcomeAlignment ==
    results # Unbound =>
        /\ Len(Stored) <= NumChecks
        /\ \A n \in 1..Len(Stored) :
              /\ task[n].pc = "done"
              /\ Stored[n][1] = NameOf(n)
              /\ Stored[n][3] = CategoryOf(n)
              /\ Stored[n][2] = OwnOutcome(n)
              /\ Stored[n][2].url = UrlOf(n)

\* a batch was merged whose two checks produced different outcomes, one
\* returned and one captured from an exception
C14_Witness ==
    /\ results # Unbound /\ Len(Stored) = NumChecks
    /\ \E j, k \in Checks :
          /\ j # k /\ BatchIndex(j) = BatchIndex(k)
          /\ task[j].pending.kind = "return" /\ task[j].pending.value[2].status = "UP"
          /\ task[k].pending.kind = "raise"

\* the finally block of main() has been entered
Finalizing == pc \in {"finalize", "summary", "main_exit", "exited"}

\* C15: in every run, completed or aborted by an exception, the
\* finalization is performed exactly once: the finally block is entered
\* once and only when no check is in flight any more, the artifact is
\* written exactly once (unless the file system refuses the write), and the
\* summary is begun only after the artifact was written.
C15_FinalizationOnce ==
    /\ Finalizing =>
          /\ count.finalize = 1
          /\ \A j \in Checks : task[j].pc \in {"new", "done"}
    /\ ~Finalizing => count.finalize = 0 /\ count.writes = 0 /\ count.summaries = 0
    /\ count.writes <= 1 /\ count.summaries <= 1
    /\ count.summaries = 1 => count.writes = 1 /\ artifact.t = "json"
    /\ (pc = "exited" /\ exc.cls \notin {"PermissionError", "OSError"}) =>
          count.writes = 1 /\ artifact.t = "json"

\* C16: no retry.  The check of a site is started at most once per run (one
\* task, one browser session, at most one agent run), and a failed check
\* does not stop later batches: in a run whose setup succeeded and that no
\* user interrupt cancelled, by the time the finalization begins every site
\* of the catalog was checked exactly once and has its one outcome in the
\* report.
C16_NoRetry ==
    /\ \A j \in Checks :
          calls[j].task <= 1 /\ calls[j].session <= 1 /\ calls[j].agent <= 1
    /\ (Finalizing /\ sigint = "none" /\ results # Unbound) =>
          \A j \in Checks : calls[j].task = 1 /\ HeldOnce(results.categories, j)

\* the checks in flight: started and not yet resolved
InFlight == {j \in Checks : task[j].pc \notin {"new", "done"}}

\* the offsets range(0, len(all_checks), batch_size) of line 187 takes
Offsets == {k \in 0..(NumChecks - 1) : k % batch_size = 0}

\* C17: the site list is cut into consecutive batches of exactly batch_size
\* sites, except possibly the last, and every site is in exactly one batch;
\* the sites checked so far are those of the batches started so far; at
\* every moment at most batch_size checks are in flight, all of the batch
\* at the loop's current offset.
C17_BoundedConcurrency ==
    /\ \A j \in Checks : Cardinality({k \in Offsets : j \in BatchOf(k)}) = 1
    /\ \A k \in Offsets :
          /\ BatchOf(k) = {j \in Checks : BatchIndex(j) * batch_size = k}
          /\ k + batch_size <= NumChecks => Cardinality(BatchOf(k)) = batch_size
          /\ Cardinality(BatchOf(k)) \in 1..batch_size
    /\ \A j \in Checks : calls[j].task = (IF BatchIndex(j) < count.batches THEN 1 ELSE 0)
    /\ Cardinality(InFlight) <= batch_size
    /\ InFlight # {} => pc = "gather" /\ i \in Offsets /\ InFlight \subseteq BatchOf(i)

\* a full batch after the first is in flight at once
C17_Witness ==
    /\ i > 0
    /\ Cardinality(InFlight) = batch_size
    /\ \E j \in InFlight : task[j].pc = "run"
    /\ \E j \in InFlight : task[j].pc = "session_close"

\* how many batches range(0, len(all_checks), batch_size) makes
NumBatches == Cardinality(Offsets)

\* C18: exactly one delay separates consecutive batches and none follows
\* the last one: while the K-th batch runs, K - 1 delays were begun; a run
\* of B batches begins exactly B - 1 delays; and a delay begins only after
\* the outcomes of the batch before it were merged, when another batch
\* follows.
C18_Pacing ==
    /\ pc = "gather" => count.sleeps = count.batches - 1
    /\ pc = "sleep" =>
          /\ count.sleeps = count.batches
          /\ i + batch_size < NumChecks
          /\ InFlight = {}
          /\ \A j \in BatchOf(i) : HeldOnce(results.categories, j)
    /\ LoopCompleted => count.batches = NumBatches /\ count.sleeps = NumBatches - 1
    /\ count.sleeps <= count.batches

\* a run of several batches completed, and one delay was begun between
\* each two
C18_Witness ==
    /\ pc = "exited" /\ LoopCompleted
    /\ count.batches > 1 /\ count.sleeps = count.batches - 1

\* the browser session of site j's check was built and close() was not
\* called on it yet
SessionOpen(j) == calls[j].session = 1 /\ calls[j].session_close = 0

\* C19: for every check, close() of its browser session is called exactly
\* once before the check resolves, on every path (verdict returned, parse
\* failure, exception in start(), new_tab() or the agent run, cancellation),
\* and page.close() is called exactly once if and only if the tab was
\* opened; so no session is open outside the batch in flight: none when the
\* next batch starts, none when the finalization begins.
C19_ResourcePairing ==
    \A j \in Checks :
        /\ calls[j].session_close <= calls[j].session /\ calls[j].session <= 1
        /\ calls[j].page_close <= calls[j].tab /\ calls[j].tab <= calls[j].session
        /\ task[j].pc = "done" =>
              /\ calls[j].session_close = calls[j].session
              /\ calls[j].page_close = calls[j].tab
        /\ task[j].pc \in {"new_tab", "run", "page_close", "session_close"} => SessionOpen(j)
        /\ SessionOpen(j) => pc = "gather" /\ j \in BatchOf(i)

\* the finalization began after a check whose start() failed, a check that
\* was cancelled with its tab open, and a check that returned its verdict,
\* each having closed what it opened
C19_Witness ==
    /\ Finalizing
    /\ \E j \in Checks : task[j].raised = Fails("start") /\ calls[j].session_close = 1
    /\ \E j \in Checks : /\ task[j].raised = Cancelled /\ calls[j].tab = 1
                          /\ calls[j].page_close = 1 /\ calls[j].session_close = 1
    /\ \E j \in Checks : /\ task[j].raised = NoExc /\ task[j].pending.kind = "return"
                          /\ calls[j].page_close = 1 /\ calls[j].session_close = 1

\* the result of a check of site j whose agent output parsed with status UP
UpVerdict(j) == Return(<<NameOf(j), Outcome("UP", UrlOf(j), None)>>)

\* what the merge records for site j when its check ends with result p;
\* None when the merge raises instead
WouldRecord(j, p) ==
    LET m == MergeOne(EmptyDict, all_checks[j], p)
    IN  IF m.exc = NoExc THEN Held(m.categories, j) ELSE None

\* a step in which page.close() or browser_session.close() raises in a
\* check that had computed the verdict UP, in a run no user interrupt
\* cancelled
CleanupRaises(j) ==
    /\ sigint = "none"
    /\ task[j].pc \in {"page_close", "session_close"}
    /\ task[j].pending = UpVerdict(j)
    /\ task'[j].raised # NoExc

\* a site is recorded UP only by a check that returned the verdict UP and
\* in which nothing raised, both close() calls made
UpOnlyIfCleanClose ==
    results # Unbound =>
        \A n \in 1..Len(Stored) :
            Stored[n][2].status = "UP" =>
                /\ task[n].pending = UpVerdict(n) /\ task[n].raised = NoExc
                /\ calls[n].page_close = 1 /\ calls[n].session_close = 1

\* C20: a site is recorded UP only if the agent's output parsed with status
\* UP and page.close() and browser_session.close() both completed without
\* raising; when the verdict UP was computed and one of the two then raises,
\* the cleanup exception replaces the verdict and the site is recorded DOWN
\* with the cleanup exception's message.
C20_CleanupReplacesVerdict ==
    /\ []UpOnlyIfCleanClose
    /\ [][\A j \in Checks :
            CleanupRaises(j) =>
                WouldRecord(j, task'[j].pending) = DownWith(j, task'[j].raised)]_vars

====
